---- MODULE Spec2Model ----
(***************************************************************************)
(* Repair planning of an electrical network: segment/building model        *)
(* (reseau_model.py) and the greedy scheduler, phase assigner and plan      *)
(* writer (planning_phases.py).                                             *)
(*                                                                          *)
(* Numbers.  The program computes in binary floating point.  The model      *)
(* computes exactly, on integers:                                           *)
(*   - a difficulty is longueur * duree * prix / denominator; the segment   *)
(*     catalogue below only holds values for which the quotient is whole;   *)
(*   - a duration is kept in ticks of 1/12 hour, so that the division by    *)
(*     an effective crew of 1..4 is whole;                                  *)
(*   - the phase thresholds 0.40/0.20/0.20 are kept in tenths.              *)
(* Objects.  An Infra is modelled by value: two Infra with the same         *)
(* infra_id held by two buildings are two objects, as build_infras_from_df  *)
(* creates them (one object per row).                                       *)
(***************************************************************************)
EXTENDS Integers, Sequences, FiniteSets, TLC

VARIABLES
    pc,               \* position of the running program
    df,               \* main: the loaded rows (load_network_dataframe)
    infras,           \* main: result of build_infras_from_df
    buildings,        \* main / assign_phases: the full building list
    sel_buildings,    \* select_order_with_repair: its argument `buildings` (objects mutated in place)
    remaining,        \* select_order_with_repair: keys of the dict `remaining`, in dict order
    repaired_ids,     \* select_order_with_repair: global repaired infra ids
    pick_cost,        \* select_order_with_repair: bid -> difficulty at selection time
    pick_metrics,     \* select_order_with_repair: bid -> cost/duration/workers
    ordered,          \* select_order_with_repair: the order built so far
    tier,             \* select_order_with_repair: index of the group being processed (1..3)
    pool,             \* select_order_with_repair: the current pool
    phases_df,        \* assign_phases: its result, rows <<bid, phase>>
    rows,             \* main: the rows of phases_plan.csv
    run,              \* number of the scheduling run on this input (1 or 2)
    first_run,        \* outputs of the first run, kept by the caller for comparison
    workers_per_infra,\* compute_building_cost_and_duration: its crew argument (direct call)
    metrics_out       \* compute_building_cost_and_duration: its result (direct call)

vars == <<pc, df, infras, buildings, sel_buildings, remaining, repaired_ids,
          pick_cost, pick_metrics, ordered, tier, pool, phases_df, rows,
          run, first_run, workers_per_infra, metrics_out>>

-----------------------------------------------------------------------------
(* Bounds of the explored inputs *)

MaxBuildings == 2      \* buildings in a list handed to select_order_with_repair
NumInfraIds == 2       \* catalogue segments those buildings draw from
MaxRows == 2           \* rows of the loaded sheet
NumBatIds == 4         \* building ids the rows draw from
NumRowInfraIds == 3    \* catalogue segments the rows draw from
CatalogSize == 6       \* catalogue segments of a building whose metrics are computed directly
MaxCrew == 6           \* largest crew argument of a direct metrics computation
MaxOrderLen == 3       \* length of an order handed directly to assign_phases
MaxPool == 3           \* buildings of one category handed to select_order_with_repair

(* ticks per hour: the least common multiple of the effective crews 1..4 *)
TicksPerHour == 3 * 4

Empty == [x \in {} |-> 0]

NaN == "NaN"
None == "None"

-----------------------------------------------------------------------------
(* Sequence helpers standing for Python's built-ins *)

RECURSIVE SumSeq(_)
SumSeq(s) == IF s = <<>> THEN 0 ELSE Head(s) + SumSeq(Tail(s))

RECURSIVE MaxSeq(_)
MaxSeq(s) ==
    IF Len(s) = 1 THEN s[1]
    ELSE LET m == MaxSeq(Tail(s)) IN IF Head(s) >= m THEN Head(s) ELSE m

Range(s) == {s[i] : i \in 1..Len(s)}

Min2(a, b) == IF a <= b THEN a ELSE b
Max2(a, b) == IF a >= b THEN a ELSE b

-----------------------------------------------------------------------------
(* Input catalogue: the raw attributes of the network segments, by infra_id. *)
(* Every row that mentions a segment carries these attributes.               *)

RawLongueur(i) ==
    CASE i = 1 -> 20 [] i = 2 -> 34 [] i = 3 -> 16
      [] i = 4 -> 100 [] i = 5 -> 50 [] i = 6 -> 10
      [] OTHER -> 10 * i

RawTypeInfra(i) ==
    CASE i = 1 -> "Aérien" [] i = 2 -> "aerien" [] i = 3 -> "Semi-Aérien"
      [] i = 4 -> "aerien" [] i = 5 -> "fourreau" [] i = 6 -> "cuivre"
      [] OTHER -> "aerien"

(* a numeric cell is <<n>>, an empty one (NaN) is <<>> *)
RawNbMaisons(i) ==
    CASE i = 1 -> <<>> [] i = 2 -> <<1>> [] i = 3 -> <<2>>
      [] i = 4 -> <<10>> [] i = 5 -> <<5>> [] i = 6 -> <<3>>
      [] OTHER -> <<1>>

RawInfraType(i) ==
    CASE i = 1 -> "infra_intacte" [] i = 3 -> "A Remplacer" [] OTHER -> "a_remplacer"

(* a missing or blank technical type, as the sheet may hold it *)
BlankTypeInfra(i) ==
    CASE i = 1 -> "" [] i = 2 -> "   " [] OTHER -> NaN

RawTypeBatiment(b) ==
    CASE b = 1 -> "Hôpital" [] b = 2 -> "école" [] b = 3 -> "habitation"
      [] OTHER -> NaN

-----------------------------------------------------------------------------
(* reseau_model.py: normalisation *)

Strip(value) == IF value = "   " THEN "" ELSE value

normalize_infra_key(value) ==
    CASE value = "" -> ""
      [] value = "Aérien" -> "aerien"
      [] value = "aerien" -> "aerien"
      [] value = "Semi-Aérien" -> "semiaerien"
      [] value = "fourreau" -> "fourreau"
      [] OTHER -> value

is_a_remplacer(value) ==
    IF value = None THEN FALSE
    ELSE LET t == CASE value = "A Remplacer" -> "a remplacer" [] OTHER -> value
         IN  t \in {"a_remplacer", "a remplacer", "a-remplacer"}

normalize_type_batiment(tp) ==
    CASE tp = "" -> "other"
      [] tp = "Hôpital" -> "hopital"
      [] tp = "école" -> "ecole"
      [] tp = "habitation" -> "habitation"
      [] OTHER -> tp

INFRA_PRICE_MAPPING(key) ==
    CASE key = "aerien" -> 500 [] key = "semiaerien" -> 750
      [] key = "fourreau" -> 900 [] OTHER -> 0

INFRA_DURATION_MAPPING(key) ==
    CASE key = "aerien" -> 2 [] key = "semiaerien" -> 4
      [] key = "fourreau" -> 5 [] OTHER -> 0

-----------------------------------------------------------------------------
(* reseau_model.py: class Infra *)

Infra(building_id, infra_id, longueur, type_infra, nb_houses) ==
    [building_id |-> building_id, infra_id |-> infra_id, longueur |-> longueur,
     type_infra |-> type_infra, nb_houses |-> nb_houses,
     infra_state |-> "a_remplacer"]

get_prix(infra) == INFRA_PRICE_MAPPING(normalize_infra_key(infra.type_infra))

get_duree(infra) == INFRA_DURATION_MAPPING(normalize_infra_key(infra.type_infra))

get_infra_difficulty(infra) ==
    IF infra.infra_state = "infra_intacte" THEN 0
    ELSE LET denominator == IF infra.nb_houses > 0 THEN infra.nb_houses ELSE 1
         IN  (infra.longueur * get_duree(infra) * get_prix(infra)) \div denominator

repair_infra(infra) == [infra EXCEPT !.infra_state = "infra_intacte"]

Batiment(id_building, type_batiment, list_infras) ==
    [id_building |-> id_building, type_batiment |-> type_batiment,
     list_infras |-> list_infras]

(* Batiment.get_building_difficulty: sum(self.list_infras), through Infra.__radd__ *)
get_building_difficulty(b) ==
    SumSeq([k \in 1..Len(b.list_infras) |-> get_infra_difficulty(b.list_infras[k])])

(* main.priority_key: (prio, difficulty), hopital 0, ecole 1, the rest 2 *)
priority_key(b) ==
    LET t == b.type_batiment
        prio == IF t = "hopital" THEN 0 ELSE IF t = "ecole" THEN 1 ELSE 2
    IN  <<prio, get_building_difficulty(b)>>

-----------------------------------------------------------------------------
(* planning_phases.py: difficulty and metrics *)

(* mutant: the repaired set is not consulted, only the state of the object itself *)
InfraContributionStateOnly(infra, rep) == get_infra_difficulty(infra)

(* lines 16-18: what one infra adds to the total *)
InfraContribution(infra, rep) ==
    IF infra.infra_id \in rep THEN 0 ELSE get_infra_difficulty(infra)

compute_building_difficulty_dynamic(b, rep) ==
    SumSeq([k \in 1..Len(b.list_infras) |-> InfraContribution(b.list_infras[k], rep)])

(* mutant: the crew is not capped at 4 *)
effective_workers_uncapped(w) == Max2(1, w)

effective_workers(w) == Max2(1, Min2(4, w))

compute_building_cost_and_duration(b, w) ==
    LET crew == effective_workers(w)
        n == Len(b.list_infras)
        per_infra_hours ==
            [k \in 1..n |->
               (b.list_infras[k].longueur * get_duree(b.list_infras[k]) * TicksPerHour)
                 \div crew]
    IN  [cost_eur |-> SumSeq([k \in 1..n |->
                        b.list_infras[k].longueur * get_prix(b.list_infras[k])]),
         duration_h |-> IF n > 0 THEN MaxSeq(per_infra_hours) ELSE 0,
         workers_total |-> crew * n]


-----------------------------------------------------------------------------
(* planning_phases.py: select_order_with_repair *)

(* remaining = {b.id_building: b for b in buildings}: the last building of an id wins *)
RECURSIVE IndexOf(_, _)
IndexOf(blds, bid) ==
    IF blds = <<>> THEN 0
    ELSE IF blds[Len(blds)].id_building = bid THEN Len(blds)
    ELSE IndexOf(SubSeq(blds, 1, Len(blds) - 1), bid)

BuildingAt(blds, bid) == blds[IndexOf(blds, bid)]

RECURSIVE DictKeys(_)
DictKeys(ids) ==
    IF ids = <<>> THEN <<>>
    ELSE LET front == DictKeys(SubSeq(ids, 1, Len(ids) - 1))
             last == ids[Len(ids)]
         IN  IF last \in Range(front) THEN front ELSE Append(front, last)

IdsOf(blds) == [i \in 1..Len(blds) |-> blds[i].id_building]

IsHospital(b) == b.type_batiment = "hopital"
IsSchool(b) == b.type_batiment = "ecole"
IsOther(b) == b.type_batiment \notin {"hopital", "ecole"}

Hospitals(blds) == IdsOf(SelectSeq(blds, IsHospital))
Schools(blds) == IdsOf(SelectSeq(blds, IsSchool))
Others(blds) == IdsOf(SelectSeq(blds, IsOther))

(* mutant: the groups are taken in the opposite order *)
TierGroupReversed(blds, t) ==
    CASE t = 1 -> Others(blds)
      [] t = 2 -> Schools(blds)
      [] OTHER -> Hospitals(blds)

TierGroup(blds, t) ==
    CASE t = 1 -> Hospitals(blds)
      [] t = 2 -> Schools(blds)
      [] OTHER -> Others(blds)

(* mutant: the sort compares the whole pair (difficulty, id) *)
RECURSIVE InsertScoredByPair(_, _)
InsertScoredByPair(sorted, x) ==
    IF sorted = <<>> THEN <<x>>
    ELSE IF x[1] < Head(sorted)[1] \/ (x[1] = Head(sorted)[1] /\ x[2] < Head(sorted)[2])
         THEN <<x>> \o sorted
    ELSE <<Head(sorted)>> \o InsertScoredByPair(Tail(sorted), x)

(* mutant: the sort is descending, the largest difficulty comes first *)
RECURSIVE InsertScoredDescending(_, _)
InsertScoredDescending(sorted, x) ==
    IF sorted = <<>> THEN <<x>>
    ELSE IF x[1] > Head(sorted)[1] THEN <<x>> \o sorted
    ELSE <<Head(sorted)>> \o InsertScoredDescending(Tail(sorted), x)

(* scored.sort(key=lambda x: x[0]): a stable sort on the difficulty alone *)
RECURSIVE InsertScored(_, _)
InsertScored(sorted, x) ==
    IF sorted = <<>> THEN <<x>>
    ELSE IF x[1] < Head(sorted)[1] THEN <<x>> \o sorted
    ELSE <<Head(sorted)>> \o InsertScored(Tail(sorted), x)

RECURSIVE SortScored(_)
SortScored(scored) ==
    IF scored = <<>> THEN <<>>
    ELSE InsertScored(SortScored(SubSeq(scored, 1, Len(scored) - 1)), scored[Len(scored)])

current_sorted(ids, blds, rep) ==
    LET scored == [k \in 1..Len(ids) |->
                     <<compute_building_difficulty_dynamic(BuildingAt(blds, ids[k]), rep), ids[k]>>]
        sorted == SortScored(scored)
    IN  [k \in 1..Len(sorted) |-> sorted[k][2]]

InRemaining(rem, bid) == bid \in Range(rem)

(* mutant: the pool is not filtered on what is left in `remaining` *)
PoolOfUnfiltered(group, rem) == group

PoolOf(group, rem) == SelectSeq(group, LAMBDA bid : InRemaining(rem, bid))

(* mutant: only the first segment of the building is repaired *)
RepairBuildingHeadOnly(b) ==
    [b EXCEPT !.list_infras =
       [k \in 1..Len(b.list_infras) |->
          IF k = 1 THEN repair_infra(b.list_infras[k]) ELSE b.list_infras[k]]]

RepairBuilding(b) ==
    [b EXCEPT !.list_infras = [k \in 1..Len(b.list_infras) |-> repair_infra(b.list_infras[k])]]

InfraIdsOf(b) == {b.list_infras[k].infra_id : k \in 1..Len(b.list_infras)}

SetDefault(map, key, value) == IF key \in DOMAIN map THEN map ELSE (key :> value) @@ map

SetItem(map, key, value) == (key :> value) @@ map

(* mutant: the repaired set survives from one call to the next *)
SelectEntryStale ==
    /\ pc = "select"
    /\ pick_metrics' = Empty
    /\ remaining' = DictKeys(IdsOf(sel_buildings))
    /\ pick_cost' = Empty
    /\ ordered' = <<>>
    /\ tier' = 1
    /\ pool' = PoolOf(TierGroup(sel_buildings, 1), remaining')
    /\ pc' = "loop"
    /\ UNCHANGED <<df, infras, buildings, sel_buildings, repaired_ids, phases_df, rows,
                   run, first_run, workers_per_infra, metrics_out>>

(* lines 49-74: the locals, the three groups, and the pool of the first group *)
SelectEntry ==
    /\ pc = "select"
    /\ pick_metrics' = Empty
    /\ repaired_ids' = {}
    /\ remaining' = DictKeys(IdsOf(sel_buildings))
    /\ pick_cost' = Empty
    /\ ordered' = <<>>
    /\ tier' = 1
    /\ pool' = PoolOf(TierGroup(sel_buildings, 1), remaining')
    /\ pc' = "loop"
    /\ UNCHANGED <<df, infras, buildings, sel_buildings, phases_df, rows, run,
                   first_run, workers_per_infra, metrics_out>>

(* lines 75-89: one iteration of the while loop; the locals of the iteration *)
(* (the sorted pool, bid, remaining[bid]) are bound once, as values          *)
PickStep ==
    /\ pc = "loop"
    /\ pool # <<>>
    /\ \E sorted \in {current_sorted(pool, sel_buildings, repaired_ids)} :
       \E bid \in {Head(sorted)} :
       \E b \in {BuildingAt(sel_buildings, bid)} :
       \E rem \in {SelectSeq(remaining, LAMBDA r : r # bid)} :
           /\ pick_cost' = SetItem(pick_cost, bid, compute_building_difficulty_dynamic(b, repaired_ids))
           /\ pick_metrics' = SetItem(pick_metrics, bid, compute_building_cost_and_duration(b, 4))
           /\ ordered' = Append(ordered, bid)
           /\ sel_buildings' = [sel_buildings EXCEPT ![IndexOf(sel_buildings, bid)] = RepairBuilding(b)]
           /\ repaired_ids' = repaired_ids \cup InfraIdsOf(b)
           /\ remaining' = rem
           /\ pool' = PoolOf(Tail(sorted), rem)
    /\ UNCHANGED <<pc, df, infras, buildings, tier, phases_df, rows, run, first_run,
                   workers_per_infra, metrics_out>>

(* lines 72-75: the pool of a group is exhausted, the next group is taken *)
NextTier ==
    /\ pc = "loop"
    /\ pool = <<>>
    /\ tier < 3
    /\ tier' = tier + 1
    /\ pool' = PoolOf(TierGroup(sel_buildings, tier + 1), remaining)
    /\ UNCHANGED <<pc, df, infras, buildings, sel_buildings, remaining, repaired_ids,
                   pick_cost, pick_metrics, ordered, phases_df, rows, run, first_run,
                   workers_per_infra, metrics_out>>

RECURSIVE SetDefaults(_, _, _, _)
SetDefaults(map, keys, blds, metrics) ==
    IF keys = <<>> THEN map
    ELSE SetDefaults(
           SetDefault(map, Head(keys),
                      IF metrics THEN compute_building_cost_and_duration(BuildingAt(blds, Head(keys)), 4)
                      ELSE 0),
           Tail(keys), blds, metrics)

(* lines 91-96: whatever is left in `remaining` is appended, and the function returns *)
SelectReturn ==
    /\ pc = "loop"
    /\ pool = <<>>
    /\ tier = 3
    /\ ordered' = ordered \o remaining
    /\ pick_cost' = SetDefaults(pick_cost, remaining, sel_buildings, FALSE)
    /\ pick_metrics' = SetDefaults(pick_metrics, remaining, sel_buildings, TRUE)
    /\ pc' = "assign"
    /\ UNCHANGED <<df, infras, buildings, sel_buildings, remaining, repaired_ids, tier,
                   pool, phases_df, rows, run, first_run, workers_per_infra, metrics_out>>


-----------------------------------------------------------------------------
(* planning_phases.py: assign_phases *)

(* mutant: the comparisons are turned around *)
PhaseOfFlipped(cum, t1, t2, t3) ==
    IF 10 * cum > t1 THEN 1
    ELSE IF 10 * cum > t2 THEN 2
    ELSE IF 10 * cum > t3 THEN 3
    ELSE 4

(* mutant: the buckets are numbered from 0 *)
PhaseOfZeroBased(cum, t1, t2, t3) ==
    IF 10 * cum < t1 THEN 0
    ELSE IF 10 * cum < t2 THEN 1
    ELSE IF 10 * cum < t3 THEN 2
    ELSE 3

(* mutant: the comparisons with the thresholds are not strict *)
PhaseOfNonStrict(cum, t1, t2, t3) ==
    IF 10 * cum <= t1 THEN 1
    ELSE IF 10 * cum <= t2 THEN 2
    ELSE IF 10 * cum <= t3 THEN 3
    ELSE 4

(* the thresholds are kept in tenths of the total: t1 = 0.40 * total_cost, ... *)
PhaseOf(cum, t1, t2, t3) ==
    IF 10 * cum < t1 THEN 1
    ELSE IF 10 * cum < t2 THEN 2
    ELSE IF 10 * cum < t3 THEN 3
    ELSE 4

CostGet(costs, bid) == IF bid \in DOMAIN costs THEN costs[bid] ELSE 0

(* mutant: the building's own difficulty is added before it is bucketed *)
RECURSIVE BucketLoopInclusive(_, _, _, _, _, _)
BucketLoopInclusive(ids, costs, cum, t1, t2, t3) ==
    IF ids = <<>> THEN <<>>
    ELSE LET cost == CostGet(costs, Head(ids))
         IN  <<<<Head(ids), PhaseOf(cum + cost, t1, t2, t3)>>>>
               \o BucketLoopInclusive(Tail(ids), costs, cum + cost, t1, t2, t3)

RECURSIVE BucketLoop(_, _, _, _, _, _)
BucketLoop(ids, costs, cum, t1, t2, t3) ==
    IF ids = <<>> THEN <<>>
    ELSE LET cost == CostGet(costs, Head(ids))
         IN  <<<<Head(ids), PhaseOf(cum, t1, t2, t3)>>>>
               \o BucketLoop(Tail(ids), costs, cum + cost, t1, t2, t3)

(* mutant: of the records of an id the last one is kept *)
RECURSIVE DropDuplicatesKeepLast(_)
DropDuplicatesKeepLast(records) ==
    IF records = <<>> THEN <<>>
    ELSE LET back == DropDuplicatesKeepLast(Tail(records))
             first == Head(records)
         IN  IF \E k \in 1..Len(back) : back[k][1] = first[1] THEN back
             ELSE <<first>> \o back

(* df.drop_duplicates(subset=["id_batiments"], keep="first") *)
RECURSIVE DropDuplicates(_)
DropDuplicates(records) ==
    IF records = <<>> THEN <<>>
    ELSE LET front == DropDuplicates(SubSeq(records, 1, Len(records) - 1))
             last == records[Len(records)]
         IN  IF \E k \in 1..Len(front) : front[k][1] = last[1] THEN front
             ELSE Append(front, last)

assign_phases(order, blds, costs) ==
    LET hospitals == SelectSeq(order, LAMBDA bid : BuildingAt(blds, bid).type_batiment = "hopital")
        non_hospitals == SelectSeq(order, LAMBDA bid : BuildingAt(blds, bid).type_batiment # "hopital")
        total_cost == SumSeq([k \in 1..Len(non_hospitals) |-> CostGet(costs, non_hospitals[k])])
        t1 == 4 * total_cost
        t2 == t1 + 2 * total_cost
        t3 == t2 + 2 * total_cost
        phase_records == [k \in 1..Len(hospitals) |-> <<hospitals[k], 0>>]
                           \o BucketLoop(non_hospitals, costs, 0, t1, t2, t3)
    IN  DropDuplicates(phase_records)

(* the call assign_phases(order, buildings, pick_cost) *)
AssignStep ==
    /\ pc = "assign"
    /\ phases_df' = assign_phases(ordered, buildings, pick_cost)
    /\ pc' = "assigned"
    /\ UNCHANGED <<df, infras, buildings, sel_buildings, remaining, repaired_ids,
                   pick_cost, pick_metrics, ordered, tier, pool, rows, run, first_run,
                   workers_per_infra, metrics_out>>

-----------------------------------------------------------------------------
(* Inputs *)

TypesBatiment == {"hopital", "ecole", "habitation"}

RECURSIVE SetToSeq(_)
SetToSeq(S) ==
    IF S = {} THEN <<>>
    ELSE LET m == CHOOSE x \in S : \A y \in S : x <= y
         IN  <<m>> \o SetToSeq(S \ {m})

NbHousesOf(cell) == IF cell # <<>> THEN cell[1] ELSE 0

CatalogInfra(b, i) ==
    Infra(b, i, RawLongueur(i), Strip(RawTypeInfra(i)), NbHousesOf(RawNbMaisons(i)))

(* a building list handed to select_order_with_repair: ids 1..n, any category, *)
(* any set of catalogue segments, so that two buildings may refer to the same   *)
(* segment                                                                      *)
InfrasOf(b, S) ==
    LET ids == SetToSeq(S) IN [k \in 1..Len(ids) |-> CatalogInfra(b, ids[k])]

MakeBuildings(ids, types, segs) ==
    [p \in DOMAIN types |-> Batiment(ids[p], types[p], InfrasOf(ids[p], segs[p]))]

(* the ids of a list of n buildings: ascending or descending along the list *)
IdOrders(n) == {[p \in 1..n |-> p], [p \in 1..n |-> n + 1 - p]}

(* the same input built again: every Infra is constructed in state a_remplacer *)
Fresh(blds) ==
    [b \in 1..Len(blds) |->
       [blds[b] EXCEPT !.list_infras =
          [k \in 1..Len(blds[b].list_infras) |->
             [blds[b].list_infras[k] EXCEPT !.infra_state = "a_remplacer"]]]]

NoRun == [order |-> <<>>, pick_cost |-> Empty, phases |-> <<>>]

(* the caller schedules the same input a second time *)
RunAgain ==
    /\ pc = "assigned"
    /\ run = 1
    /\ first_run' = [order |-> ordered, pick_cost |-> pick_cost, phases |-> phases_df]
    /\ sel_buildings' = Fresh(sel_buildings)
    /\ run' = 2
    /\ pc' = "select"
    /\ UNCHANGED <<df, infras, buildings, remaining, repaired_ids, pick_cost,
                   pick_metrics, ordered, tier, pool, phases_df, rows,
                   workers_per_infra, metrics_out>>

Init ==
    /\ pc = "select"
    /\ df = <<>>
    /\ infras = <<>>
    /\ \E n \in 0..MaxBuildings :
         \E ids \in IdOrders(n), types \in [1..n -> TypesBatiment],
            segs \in [1..n -> SUBSET (1..NumInfraIds)] :
            sel_buildings = MakeBuildings(ids, types, segs)
    /\ buildings = sel_buildings
    /\ remaining = <<>>
    /\ repaired_ids = {}
    /\ pick_cost = Empty
    /\ pick_metrics = Empty
    /\ ordered = <<>>
    /\ tier = 0
    /\ pool = <<>>
    /\ phases_df = <<>>
    /\ rows = <<>>
    /\ run = 1
    /\ first_run = NoRun
    /\ workers_per_infra = 4
    /\ metrics_out = None

Next ==
    \/ SelectEntry
    \/ PickStep
    \/ NextTier
    \/ SelectReturn
    \/ AssignStep
    \/ RunAgain

Spec == Init /\ [][Next]_vars

(* one call of select_order_with_repair and assign_phases on a list of up to *)
(* MaxPool buildings of one category, so that a pool keeps several buildings *)
(* after a building has been repaired                                        *)
InitPool ==
    /\ pc = "select"
    /\ df = <<>>
    /\ infras = <<>>
    /\ \E n \in 0..MaxPool :
         \E ids \in IdOrders(n), t \in TypesBatiment,
            segs \in [1..n -> SUBSET (1..NumInfraIds)] :
            sel_buildings = MakeBuildings(ids, [p \in 1..n |-> t], segs)
    /\ buildings = sel_buildings
    /\ remaining = <<>>
    /\ repaired_ids = {}
    /\ pick_cost = Empty
    /\ pick_metrics = Empty
    /\ ordered = <<>>
    /\ tier = 0
    /\ pool = <<>>
    /\ phases_df = <<>>
    /\ rows = <<>>
    /\ run = 1
    /\ first_run = NoRun
    /\ workers_per_infra = 4
    /\ metrics_out = None

NextPool ==
    \/ SelectEntry
    \/ PickStep
    \/ NextTier
    \/ SelectReturn
    \/ AssignStep

SpecPool == InitPool /\ [][NextPool]_vars

(* the segment sets of the buildings of a list whose ids may repeat *)
SegmentChoices == {{}, {1}, {1, 2}}

(* one call of select_order_with_repair on any list of buildings: two buildings *)
(* of the list may have the same id, in one category or in two                  *)
InitSelect ==
    /\ pc = "select"
    /\ df = <<>>
    /\ infras = <<>>
    /\ \E n \in 0..MaxBuildings :
         \E ids \in [1..n -> 1..n], types \in [1..n -> TypesBatiment],
            segs \in [1..n -> SegmentChoices] :
            sel_buildings = MakeBuildings(ids, types, segs)
    /\ buildings = sel_buildings
    /\ remaining = <<>>
    /\ repaired_ids = {}
    /\ pick_cost = Empty
    /\ pick_metrics = Empty
    /\ ordered = <<>>
    /\ tier = 0
    /\ pool = <<>>
    /\ phases_df = <<>>
    /\ rows = <<>>
    /\ run = 1
    /\ first_run = NoRun
    /\ workers_per_infra = 4
    /\ metrics_out = None

NextSelect ==
    \/ SelectEntry
    \/ PickStep
    \/ NextTier
    \/ SelectReturn

(* the function runs on its own thread of control: a step that can be taken *)
(* is taken                                                                 *)
SpecSelect == InitSelect /\ [][NextSelect]_vars /\ WF_vars(NextSelect)


-----------------------------------------------------------------------------
(* reseau_model.py: build_infras_from_df, group_infras_by_building *)

(* pd.isna on a text cell and on a numeric cell *)
IsNa(cell) == cell = NaN
IsNaNumber(cell) == cell = <<>>

Row(b, i, blank) ==
    [id_batiment |-> b, type_batiment |-> RawTypeBatiment(b), infra_id |-> i,
     longueur |-> RawLongueur(i),
     type_infra |-> IF blank THEN BlankTypeInfra(i) ELSE RawTypeInfra(i),
     nb_maisons |-> RawNbMaisons(i), infra_type |-> RawInfraType(i)]

(* mutant: only the rows whose raw state says "a remplacer" are kept *)
HasTypeInfraAndARemplacer(row) ==
    /\ ~(IsNa(row.type_infra) \/ Strip(row.type_infra) = "")
    /\ is_a_remplacer(row.infra_type)

(* lines 182-186: a row without a technical type is skipped *)
HasTypeInfra(row) == ~(IsNa(row.type_infra) \/ Strip(row.type_infra) = "")

InfraOfRow(row) ==
    Infra(row.id_batiment, row.infra_id, row.longueur, Strip(row.type_infra),
          IF ~IsNaNumber(row.nb_maisons) THEN row.nb_maisons[1] ELSE 0)

build_infras_from_df(d) ==
    LET kept == SelectSeq(d, HasTypeInfra)
    IN  [k \in 1..Len(kept) |-> InfraOfRow(kept[k])]

(* lines 207-213: the first row of a building gives its category *)
RECURSIVE BuildingTypeOf(_, _)
BuildingTypeOf(d, b_id) ==
    IF d = <<>> THEN "other"
    ELSE IF Head(d).id_batiment = b_id
         THEN IF ~IsNa(Head(d).type_batiment)
              THEN normalize_type_batiment(Head(d).type_batiment) ELSE "other"
    ELSE BuildingTypeOf(Tail(d), b_id)

(* mutant: every infra is assigned, duplicates included *)
AssignedInfrasAll(lst) == lst

(* lines 216-223: an infra_id already assigned to a building is not assigned again *)
RECURSIVE AssignedInfras(_)
AssignedInfras(lst) ==
    IF lst = <<>> THEN <<>>
    ELSE LET front == AssignedInfras(SubSeq(lst, 1, Len(lst) - 1))
             last == lst[Len(lst)]
         IN  IF \E k \in 1..Len(front) : front[k].infra_id = last.infra_id THEN front
             ELSE Append(front, last)

group_infras_by_building(d, lst) ==
    LET assigned == AssignedInfras(lst)
        keys == DictKeys([k \in 1..Len(assigned) |-> assigned[k].building_id]
                         \o [k \in 1..Len(d) |-> d[k].id_batiment])
    IN  [k \in 1..Len(keys) |->
           Batiment(keys[k], BuildingTypeOf(d, keys[k]),
                    SelectSeq(assigned, LAMBDA infra : infra.building_id = keys[k]))]

BuildInfras ==
    /\ pc = "build"
    /\ infras' = build_infras_from_df(df)
    /\ pc' = "group"
    /\ UNCHANGED <<df, buildings, sel_buildings, remaining, repaired_ids, pick_cost,
                   pick_metrics, ordered, tier, pool, phases_df, rows, run, first_run,
                   workers_per_infra, metrics_out>>

GroupInfras ==
    /\ pc = "group"
    /\ buildings' = group_infras_by_building(df, infras)
    /\ pc' = "filter"
    /\ UNCHANGED <<df, infras, sel_buildings, remaining, repaired_ids, pick_cost,
                   pick_metrics, ordered, tier, pool, phases_df, rows, run, first_run,
                   workers_per_infra, metrics_out>>

-----------------------------------------------------------------------------
(* planning_phases.py: main *)

(* lines 146-147: buildings without infras are filtered out before the ordering *)
MainFilter ==
    /\ pc = "filter"
    /\ sel_buildings' = SelectSeq(buildings, LAMBDA b : Len(b.list_infras) > 0)
    /\ pc' = "select"
    /\ UNCHANGED <<df, infras, buildings, remaining, repaired_ids, pick_cost,
                   pick_metrics, ordered, tier, pool, phases_df, rows, run, first_run,
                   workers_per_infra, metrics_out>>

(* mutant: the whole autonomy of 20 h is allowed, without the margin *)
margin_target_no_buffer == 20 * TicksPerHour

(* margin_target_h = 20.0 * 0.8, in ticks *)
margin_target_h == (20 * 8 * TicksPerHour) \div 10

(* lines 154-177: one row of the plan; round(., 2) changes neither a duration  *)
(* computed with a crew of 4 (a multiple of a quarter of an hour) nor a whole   *)
(* cost                                                                         *)
PlanRow(record, blds, metrics_map) ==
    LET bid == record[1]
        b == BuildingAt(blds, bid)
        metrics == IF bid \in DOMAIN metrics_map THEN metrics_map[bid]
                   ELSE compute_building_cost_and_duration(b, 4)
        n == Len(b.list_infras)
    IN  [id_batiments |-> bid,
         phase |-> record[2],
         nb_infra |-> n,
         nb_ouvriers |-> metrics.workers_total,
         duree_heures |-> metrics.duration_h,
         cout_euros |-> metrics.cost_eur,
         nb_maisons |-> IF n > 0 THEN MaxSeq([k \in 1..n |-> b.list_infras[k].nb_houses]) ELSE 0,
         hopital_ok_marge_20pct |->
             IF b.type_batiment = "hopital"
             THEN IF metrics.duration_h <= margin_target_h THEN "True" ELSE "False"
             ELSE None]

MainRows ==
    /\ pc = "assigned"
    /\ rows' = [k \in 1..Len(phases_df) |-> PlanRow(phases_df[k], buildings, pick_metrics)]
    /\ pc' = "done"
    /\ UNCHANGED <<df, infras, buildings, sel_buildings, remaining, repaired_ids,
                   pick_cost, pick_metrics, ordered, tier, pool, phases_df, run,
                   first_run, workers_per_infra, metrics_out>>

InitMain ==
    /\ pc = "build"
    /\ \E n \in 0..MaxRows :
         \E bs \in [1..n -> 1..NumBatIds], is \in [1..n -> 1..NumRowInfraIds],
            blanks \in [1..n -> BOOLEAN] :
            df = [k \in 1..n |-> Row(bs[k], is[k], blanks[k])]
    /\ infras = <<>>
    /\ buildings = <<>>
    /\ sel_buildings = <<>>
    /\ remaining = <<>>
    /\ repaired_ids = {}
    /\ pick_cost = Empty
    /\ pick_metrics = Empty
    /\ ordered = <<>>
    /\ tier = 0
    /\ pool = <<>>
    /\ phases_df = <<>>
    /\ rows = <<>>
    /\ run = 1
    /\ first_run = NoRun
    /\ workers_per_infra = 4
    /\ metrics_out = None

NextMain ==
    \/ BuildInfras
    \/ GroupInfras
    \/ MainFilter
    \/ SelectEntry
    \/ PickStep
    \/ NextTier
    \/ SelectReturn
    \/ AssignStep
    \/ MainRows

SpecMain == InitMain /\ [][NextMain]_vars

-----------------------------------------------------------------------------
(* a direct call of compute_building_cost_and_duration(b, workers_per_infra) *)

ComputeMetrics ==
    /\ pc = "metrics"
    /\ metrics_out' = compute_building_cost_and_duration(sel_buildings[1], workers_per_infra)
    /\ pc' = "done"
    /\ UNCHANGED <<df, infras, buildings, sel_buildings, remaining, repaired_ids,
                   pick_cost, pick_metrics, ordered, tier, pool, phases_df, rows, run,
                   first_run, workers_per_infra>>

InitCalc ==
    /\ pc = "metrics"
    /\ df = <<>>
    /\ infras = <<>>
    /\ \E S \in SUBSET (1..CatalogSize), repaired \in BOOLEAN :
         sel_buildings =
           <<IF repaired THEN RepairBuilding(Batiment(1, "habitation", InfrasOf(1, S)))
             ELSE Batiment(1, "habitation", InfrasOf(1, S))>>
    /\ buildings = sel_buildings
    /\ remaining = <<>>
    /\ repaired_ids = {}
    /\ pick_cost = Empty
    /\ pick_metrics = Empty
    /\ ordered = <<>>
    /\ tier = 0
    /\ pool = <<>>
    /\ phases_df = <<>>
    /\ rows = <<>>
    /\ run = 1
    /\ first_run = NoRun
    /\ workers_per_infra \in (0 - 1)..MaxCrew
    /\ metrics_out = None

NextCalc == ComputeMetrics

SpecCalc == InitCalc /\ [][NextCalc]_vars


-----------------------------------------------------------------------------
(* a direct call of assign_phases(order, buildings, pick_cost): any order over *)
(* the building ids (an id may repeat), any difficulty map (an id may be absent) *)

CostValues == {0, 10000, 45000}

Absent == 0 - 1

SeqsUpTo(S, n) == UNION {[1..m -> S] : m \in 0..n}

CostMap(cells) == [b \in {x \in DOMAIN cells : cells[x] # Absent} |-> cells[b]]

InitAssign ==
    /\ pc = "assign"
    /\ df = <<>>
    /\ infras = <<>>
    /\ \E n \in 0..MaxBuildings :
         \E types \in [1..n -> TypesBatiment], cells \in [1..n -> CostValues \cup {Absent}] :
            /\ buildings = MakeBuildings([p \in 1..n |-> p], types, [p \in 1..n |-> {}])
            /\ ordered \in SeqsUpTo(1..n, MaxOrderLen)
            /\ pick_cost = CostMap(cells)
    /\ sel_buildings = buildings
    /\ remaining = <<>>
    /\ repaired_ids = {}
    /\ pick_metrics = Empty
    /\ tier = 0
    /\ pool = <<>>
    /\ phases_df = <<>>
    /\ rows = <<>>
    /\ run = 1
    /\ first_run = NoRun
    /\ workers_per_infra = 4
    /\ metrics_out = None

NextAssign == AssignStep

SpecAssign == InitAssign /\ [][NextAssign]_vars

-----------------------------------------------------------------------------
(* Properties of the scheduler (Spec) *)

TypeOfId(blds, bid) == BuildingAt(blds, bid).type_batiment

TierRank(type) == IF type = "hopital" THEN 1 ELSE IF type = "ecole" THEN 2 ELSE 3

(* C1 - tier precedence: in the order built by select_order_with_repair no        *)
(* building comes after a building of a later tier: every hospital precedes every *)
(* non-hospital, every school precedes every building that is neither.            *)
C1_TierPrecedence ==
    \A i, j \in 1..Len(ordered) :
        i < j => TierRank(TypeOfId(sel_buildings, ordered[i]))
                   <= TierRank(TypeOfId(sel_buildings, ordered[j]))

(* a finished order in which a hospital, given last and with the larger            *)
(* difficulty, comes out before a building of another category                     *)
C1_Witness ==
    /\ pc = "assign"
    /\ Len(sel_buildings) = 2
    /\ sel_buildings[1].type_batiment # "hopital"
    /\ sel_buildings[2].type_batiment = "hopital"
    /\ pick_cost[sel_buildings[2].id_building] > pick_cost[sel_buildings[1].id_building]
    /\ pick_cost[sel_buildings[1].id_building] > 0
    /\ ordered = <<sel_buildings[2].id_building, sel_buildings[1].id_building>>

(* the difficulty of an infra that needs repair, whatever its current state *)
StaticDifficulty(infra) == get_infra_difficulty([infra EXCEPT !.infra_state = "a_remplacer"])

IsMarkedRepaired(blds, infra_id) ==
    \E b \in 1..Len(blds) : \E k \in 1..Len(blds[b].list_infras) :
        /\ blds[b].list_infras[k].infra_id = infra_id
        /\ blds[b].list_infras[k].infra_state = "infra_intacte"

NewlyRepairedDifficulty(b, before, after) ==
    SumSeq([k \in 1..Len(b.list_infras) |->
              IF b.list_infras[k].infra_id \in (after \ before)
              THEN StaticDifficulty(b.list_infras[k]) ELSE 0])

(* C3 - monotonic repair: during a run the repaired set only grows; a segment      *)
(* that some building's selection marked repaired adds 0 to the recomputed         *)
(* difficulty of every building that refers to it; and a selection lowers the      *)
(* recomputed difficulty of each building by exactly the difficulty of the         *)
(* segments it refers to that the selection repaired.                              *)
C3_MonotonicRepair ==
    [][ (pc = "loop" /\ pc' = "loop") =>
          /\ repaired_ids \subseteq repaired_ids'
          /\ \A b \in 1..Len(sel_buildings') :
               /\ \A k \in 1..Len(sel_buildings'[b].list_infras) :
                    IsMarkedRepaired(sel_buildings', sel_buildings'[b].list_infras[k].infra_id)
                      => InfraContribution(sel_buildings'[b].list_infras[k], repaired_ids') = 0
               /\ compute_building_difficulty_dynamic(sel_buildings'[b], repaired_ids')
                    = compute_building_difficulty_dynamic(sel_buildings[b], repaired_ids)
                        - NewlyRepairedDifficulty(sel_buildings[b], repaired_ids, repaired_ids')
    ]_vars

(* two buildings refer to the same segment; the first has been selected, the       *)
(* second is still waiting and its recomputed difficulty has dropped, not to 0     *)
C3_Witness ==
    /\ pc = "loop"
    /\ Len(ordered) = 1
    /\ Len(remaining) = 1
    /\ LET waiting == BuildingAt(sel_buildings, remaining[1])
           now == compute_building_difficulty_dynamic(waiting, repaired_ids)
       IN  /\ InfraIdsOf(waiting) \cap repaired_ids # {}
           /\ now > 0
           /\ now < compute_building_difficulty_dynamic(waiting, {})

PhaseOfId(records, bid) ==
    LET k == CHOOSE k \in 1..Len(records) : records[k][1] = bid IN records[k][2]

NonHospitalOrder(order, blds) ==
    SelectSeq(order, LAMBDA bid : TypeOfId(blds, bid) # "hopital")

(* C5 - bucket monotonicity: along the scheduler's order the phases of the         *)
(* non-hospital buildings never decrease.                                          *)
C5_BucketMonotonicity ==
    pc = "assigned" =>
        LET nh == NonHospitalOrder(ordered, buildings)
        IN  \A i, j \in 1..Len(nh) :
                i < j => PhaseOfId(phases_df, nh[i]) <= PhaseOfId(phases_df, nh[j])

(* two non-hospital buildings of positive difficulty land in different phases *)
C5_Witness ==
    /\ pc = "assigned"
    /\ LET nh == NonHospitalOrder(ordered, buildings)
       IN  /\ Len(nh) = 2
           /\ pick_cost[nh[1]] > 0
           /\ pick_cost[nh[2]] > 0
           /\ PhaseOfId(phases_df, nh[1]) = 1
           /\ PhaseOfId(phases_df, nh[2]) > 1

-----------------------------------------------------------------------------
(* Properties of assign_phases (SpecAssign) *)

(* C2 - phase 0 exclusivity: a row of the result has phase 0 exactly when its      *)
(* building is a hospital, and every hospital of the order has such a row,         *)
(* wherever it stands in the order and whatever its difficulty.                    *)
C2_PhaseZeroExclusivity ==
    pc = "assigned" =>
        /\ \A k \in 1..Len(phases_df) :
             (phases_df[k][2] = 0) <=> (TypeOfId(buildings, phases_df[k][1]) = "hopital")
        /\ \A i \in 1..Len(ordered) :
             TypeOfId(buildings, ordered[i]) = "hopital"
               => \E k \in 1..Len(phases_df) : phases_df[k] = <<ordered[i], 0>>

(* a hospital standing last in the order, with the largest difficulty, is in       *)
(* phase 0, and a non-hospital of difficulty 0 before it is not                    *)
C2_Witness ==
    /\ pc = "assigned"
    /\ Len(ordered) = 2
    /\ TypeOfId(buildings, ordered[1]) # "hopital"
    /\ TypeOfId(buildings, ordered[2]) = "hopital"
    /\ CostGet(pick_cost, ordered[1]) = 0
    /\ CostGet(pick_cost, ordered[2]) > 0
    /\ phases_df = <<<<ordered[2], 0>>, <<ordered[1], 4>>>>


-----------------------------------------------------------------------------
(* Properties of the whole run of main (SpecMain) *)

TypedRow(row) == row.type_infra \notin {NaN, "", "   "}

TypedRows(d) == SelectSeq(d, TypedRow)

AllRowInfraIds(d) == {d[k].infra_id : k \in 1..Len(d)}

TypedInfraIds(d) == {d[k].infra_id : k \in {x \in 1..Len(d) : TypedRow(d[x])}}

SumNbInfra(plan) == SumSeq([k \in 1..Len(plan) |-> plan[k].nb_infra])

(* the building of the first row with a technical type that mentions the segment *)
FirstTypedOwner(d, infra_id) ==
    LET k == CHOOSE k \in 1..Len(d) :
                 /\ TypedRow(d[k]) /\ d[k].infra_id = infra_id
                 /\ \A x \in 1..(k - 1) : ~(TypedRow(d[x]) /\ d[x].infra_id = infra_id)
    IN  d[k].id_batiment

Holders(blds, infra_id) ==
    {<<b, k>> \in (1..Len(blds)) \X (1..NumRowInfraIds + MaxRows) :
        k <= Len(blds[b].list_infras) /\ blds[b].list_infras[k].infra_id = infra_id}

(* C4 as stated - the segment counts of the plan add up to the number of distinct  *)
(* segment ids of the input rows.                                                  *)
C4_Original ==
    pc = "done" => SumNbInfra(rows) = Cardinality(AllRowInfraIds(df))

(* C4 as amended - a segment id is held by exactly one building, the building of   *)
(* the first row with a technical type that mentions it, and the segment counts of *)
(* the plan add up to the number of distinct segment ids of the rows that have a   *)
(* technical type.                                                                 *)
C4_DedupInvariant ==
    /\ pc \notin {"build", "group"} =>
         \A i \in TypedInfraIds(df) :
             /\ Cardinality(Holders(buildings, i)) = 1
             /\ \A h \in Holders(buildings, i) :
                    buildings[h[1]].id_building = FirstTypedOwner(df, i)
    /\ pc = "done" => SumNbInfra(rows) = Cardinality(TypedInfraIds(df))

(* two rows with a technical type give the same segment to two buildings; the plan *)
(* counts it once, for the first                                                   *)
C4_Witness ==
    /\ pc = "done"
    /\ Len(df) = 2
    /\ TypedRow(df[1]) /\ TypedRow(df[2])
    /\ df[1].infra_id = df[2].infra_id
    /\ df[1].id_batiment # df[2].id_batiment
    /\ Len(rows) = 1
    /\ rows[1].id_batiments = df[1].id_batiment
    /\ rows[1].nb_infra = 1

(* C6 - a building without any segment is left out of the ordering pass and still  *)
(* has a row in the plan: the plan has a row for every building of the input.      *)
C6_EveryBuildingHasRow ==
    pc = "done" =>
        /\ \A b \in 1..Len(buildings) :
             Len(buildings[b].list_infras) = 0 => buildings[b].id_building \notin Range(ordered)
        /\ \A b \in 1..Len(buildings) :
             \E k \in 1..Len(rows) : rows[k].id_batiments = buildings[b].id_building

RowOfInfra(d, infra) ==
    \E k \in 1..Len(d) :
        /\ d[k].id_batiment = infra.building_id
        /\ d[k].infra_id = infra.infra_id
        /\ is_a_remplacer(d[k].infra_type)

(* C7 as stated - only rows whose raw state says "a remplacer" become segments.    *)
C7_Original ==
    pc # "build" => \A j \in 1..Len(infras) : RowOfInfra(df, infras[j])

(* C7 as amended - every row with a technical type becomes a segment, whatever its *)
(* raw state, in the order of the rows and in state a_remplacer; a row whose       *)
(* technical type is missing or blank is skipped and the run goes on.              *)
C7_Materialization ==
    pc # "build" =>
        LET typed == TypedRows(df)
        IN  /\ Len(infras) = Len(typed)
            /\ \A j \in 1..Len(infras) :
                 /\ infras[j].building_id = typed[j].id_batiment
                 /\ infras[j].infra_id = typed[j].infra_id
                 /\ infras[j].longueur = typed[j].longueur
                 /\ infras[j].infra_state = "a_remplacer"

(* a sheet with a blank row and a row marked intact: the run is over, and the      *)
(* intact row is a segment of the plan                                             *)
C7_Witness ==
    /\ pc = "done"
    /\ Len(df) = 2
    /\ ~TypedRow(df[1])
    /\ TypedRow(df[2])
    /\ ~is_a_remplacer(df[2].infra_type)
    /\ Len(infras) = 1
    /\ Len(rows) = 1
    /\ rows[1].nb_infra = 1

(* the longest segment, at 4 workers, takes at most 16 hours *)
WithinSixteenHours(b) ==
    \A k \in 1..Len(b.list_infras) :
        b.list_infras[k].longueur * get_duree(b.list_infras[k]) <= 16 * 4

(* C8 - hospital safety flag: a hospital row is flagged true exactly when its      *)
(* duration with a crew of 4 is at most 16 hours, any other row has no flag, and   *)
(* the flag changes nothing: the rows follow the scheduler's order and a hospital  *)
(* is in phase 0 whether flagged safe or not.                                      *)
C8_HospitalFlag ==
    pc = "done" =>
        /\ [k \in 1..Len(rows) |-> rows[k].id_batiments] = ordered
        /\ \A k \in 1..Len(rows) :
             LET b == BuildingAt(buildings, rows[k].id_batiments)
             IN  IF b.type_batiment = "hopital"
                 THEN /\ rows[k].hopital_ok_marge_20pct
                           = (IF WithinSixteenHours(b) THEN "True" ELSE "False")
                      /\ rows[k].phase = 0
                 ELSE /\ rows[k].hopital_ok_marge_20pct = None
                      /\ rows[k].phase # 0

(* a hospital whose segment takes 17 hours is flagged false, is in phase 0 and     *)
(* first in the plan; the building after it has no flag                            *)
C8_Witness ==
    /\ pc = "done"
    /\ Len(rows) = 2
    /\ rows[1].hopital_ok_marge_20pct = "False"
    /\ rows[1].duree_heures = 17 * TicksPerHour
    /\ rows[1].phase = 0
    /\ rows[2].hopital_ok_marge_20pct = None

-----------------------------------------------------------------------------
(* Properties of compute_building_cost_and_duration (SpecCalc) *)

Clamp(x, lo, hi) == IF x < lo THEN lo ELSE IF x > hi THEN hi ELSE x

(* the rate table of the three technical types, by catalogue segment *)
RatePrice(i) == CASE i = 3 -> 750 [] i = 5 -> 900 [] i = 6 -> 0 [] OTHER -> 500
RateHours(i) == CASE i = 3 -> 4 [] i = 5 -> 5 [] i = 6 -> 0 [] OTHER -> 2

-----------------------------------------------------------------------------
(* C11  Greedy minimum selection.                                           *)

(* a step of the while loop: one more building in the order, the loop goes on *)
IsPickStep == pc = "loop" /\ pc' = "loop" /\ Len(ordered') = Len(ordered) + 1

(* the difficulty of building bid against the repaired set of the current state *)
RecomputedDifficulty(bid) ==
    compute_building_difficulty_dynamic(BuildingAt(sel_buildings, bid), repaired_ids)

(* C11: at every selection step the building chosen is one of the current   *)
(* pool and its difficulty, recomputed against the repaired set as it is    *)
(* before the step, is the minimum over the pool; the value stored for it   *)
(* in pick_cost is that minimum, taken before its own segments are repaired *)
C11_GreedyMinimum ==
    [][IsPickStep =>
         LET bid == ordered'[Len(ordered')]
         IN  /\ bid \in Range(pool)
             /\ \A p \in Range(pool) : RecomputedDifficulty(bid) <= RecomputedDifficulty(p)
             /\ bid \in DOMAIN pick_cost'
             /\ pick_cost'[bid] = RecomputedDifficulty(bid)]_vars

(* the difficulty of building bid with nothing repaired yet *)
InitialDifficulty(bid) ==
    compute_building_difficulty_dynamic(BuildingAt(Fresh(sel_buildings), bid), {})

(* a second pick out of a pool of two, one building still waiting: the value *)
(* stored for it is what is left of its difficulty once the segments of the  *)
(* first pick are repaired                                                   *)
C11_Witness ==
    /\ pc = "loop"
    /\ Len(ordered) = 2
    /\ pool # <<>>
    /\ pick_cost[ordered[2]] > 0
    /\ pick_cost[ordered[2]] < InitialDifficulty(ordered[2])

-----------------------------------------------------------------------------
(* C12  Phase thresholds.                                                   *)

(* the selection-time difficulty assign_phases reads for an id: 0 when the map *)
(* has no entry                                                                *)
StoredDifficulty(bid) == IF bid \in DOMAIN pick_cost THEN pick_cost[bid] ELSE 0

(* the difficulty allocated strictly before position k of the sequence nh *)
DifficultyBefore(nh, k) == SumSeq([j \in 1..(k - 1) |-> StoredDifficulty(nh[j])])

ThresholdPhase(cum, total) ==
    IF 100 * cum < 40 * total THEN 1
    ELSE IF 100 * cum < 60 * total THEN 2
    ELSE IF 100 * cum < 80 * total THEN 3
    ELSE 4

(* C12: a non-hospital building, at its first position in the order, is in   *)
(* phase 1 when the difficulty of the non-hospital buildings before it is    *)
(* below 40 % of the total difficulty of the non-hospital buildings, else in *)
(* phase 2 below 60 %, else in phase 3 below 80 %, else in phase 4; its own  *)
(* difficulty does not count in what is before it                            *)
C12_PhaseThresholds ==
    pc = "assigned" =>
        LET nh == NonHospitalOrder(ordered, buildings)
            total == DifficultyBefore(nh, Len(nh) + 1)
        IN  \A k \in 1..Len(nh) :
                (\A j \in 1..(k - 1) : nh[j] # nh[k]) =>
                    /\ \E r \in 1..Len(phases_df) : phases_df[r][1] = nh[k]
                    /\ PhaseOfId(phases_df, nh[k])
                         = ThresholdPhase(DifficultyBefore(nh, k), total)

(* two non-hospital buildings of equal positive difficulty: the first is in  *)
(* phase 1 and the second, with half of the total before it, in phase 2      *)
C12_Witness ==
    /\ pc = "assigned"
    /\ LET nh == NonHospitalOrder(ordered, buildings)
       IN  /\ Len(nh) = 2
           /\ nh[1] # nh[2]
           /\ StoredDifficulty(nh[1]) > 0
           /\ StoredDifficulty(nh[1]) = StoredDifficulty(nh[2])
           /\ PhaseOfId(phases_df, nh[1]) = 1
           /\ PhaseOfId(phases_df, nh[2]) = 2

-----------------------------------------------------------------------------
(* C13  One phase per building id.                                          *)

RowsOfId(records, bid) == {r \in 1..Len(records) : records[r][1] = bid}

(* the first position of bid in the sequence ids *)
FirstPosition(ids, bid) ==
    CHOOSE k \in 1..Len(ids) : ids[k] = bid /\ \A j \in 1..(k - 1) : ids[j] # bid

(* the phase the bucketing loop gives to position k of the non-hospital *)
(* sequence nh                                                          *)
AssignmentAt(nh, k) ==
    ThresholdPhase(DifficultyBefore(nh, k), DifficultyBefore(nh, Len(nh) + 1))

(* C13: every id of the order has exactly one row in the result and every   *)
(* row is for an id of the order, with a phase in 0..4; the phase of an id  *)
(* that stands several times in the order is the one of its first position *)
C13_OnePhasePerId ==
    pc = "assigned" =>
        LET nh == NonHospitalOrder(ordered, buildings)
        IN  /\ \A i \in 1..Len(ordered) : Cardinality(RowsOfId(phases_df, ordered[i])) = 1
            /\ \A r \in 1..Len(phases_df) :
                  /\ phases_df[r][1] \in Range(ordered)
                  /\ phases_df[r][2] \in 0..4
            /\ Len(phases_df) = Cardinality(Range(ordered))
            /\ \A k \in 1..Len(nh) :
                  PhaseOfId(phases_df, nh[k]) = AssignmentAt(nh, FirstPosition(nh, nh[k]))

(* a non-hospital id stands twice in the order; its second position would be *)
(* bucketed later than its first, and the single row has the first bucket    *)
C13_Witness ==
    /\ pc = "assigned"
    /\ LET nh == NonHospitalOrder(ordered, buildings)
       IN  /\ Len(nh) >= 2
           /\ nh[1] = nh[2]
           /\ AssignmentAt(nh, 1) = 1
           /\ AssignmentAt(nh, 2) = 2
           /\ Cardinality(RowsOfId(phases_df, nh[1])) = 1
           /\ PhaseOfId(phases_df, nh[1]) = 1

-----------------------------------------------------------------------------
(* C14  Termination and completeness.                                       *)

InputIds == {sel_buildings[i].id_building : i \in 1..Len(sel_buildings)}

PositionsOf(ids, bid) == {k \in 1..Len(ids) : ids[k] = bid}

(* an iteration takes one building out: one key less in `remaining`, and the *)
(* pool loses the id picked and nothing else                                 *)
C14_PickShrinks ==
    IsPickStep =>
        LET bid == ordered'[Len(ordered')]
        IN  /\ Len(remaining') = Len(remaining) - 1
            /\ Range(remaining') = Range(remaining) \ {bid}
            /\ Len(pool') < Len(pool)
            /\ Range(pool') = Range(pool) \ {bid}

(* what the function returns *)
C14_Complete ==
    pc = "assign" =>
        /\ Range(ordered) = InputIds
        /\ \A bid \in InputIds : Cardinality(PositionsOf(ordered, bid)) = 1
        /\ DOMAIN pick_cost = Range(ordered)
        /\ DOMAIN pick_metrics = Range(ordered)

(* C14: select_order_with_repair returns on every input, every iteration of *)
(* a group's loop taking one building out of the pool; the order returned   *)
(* holds every distinct id of the input exactly once, and pick_cost and     *)
(* pick_metrics have an entry for every id of the order; a group with an    *)
(* empty pool is passed over                                                *)
C14_Termination ==
    /\ [][C14_PickShrinks]_vars
    /\ [](C14_Complete)
    /\ <>(pc = "assign")

(* the function has returned on a list of two buildings of one id, one of   *)
(* them a school: the groups of the hospitals and of the others were empty  *)
C14_Witness ==
    /\ pc = "assign"
    /\ Len(sel_buildings) = 2
    /\ sel_buildings[1].id_building = sel_buildings[2].id_building
    /\ \A i \in 1..2 : sel_buildings[i].type_batiment = "ecole"
    /\ Len(ordered) = 1
    /\ tier = 3

-----------------------------------------------------------------------------
(* C15  Repair state mutation.                                              *)

SegmentState(blds, i, k) == blds[i].list_infras[k].infra_state

(* the building list after a step differs from the one before at most in the *)
(* state of the segments of the building at position i, all repaired         *)
OnlyBuildingRepaired(i) ==
    /\ Len(sel_buildings') = Len(sel_buildings)
    /\ \A j \in 1..Len(sel_buildings) :
          IF j # i THEN sel_buildings'[j] = sel_buildings[j]
          ELSE /\ Len(sel_buildings'[j].list_infras) = Len(sel_buildings[j].list_infras)
               /\ \A k \in 1..Len(sel_buildings[j].list_infras) :
                     sel_buildings'[j].list_infras[k]
                       = [sel_buildings[j].list_infras[k] EXCEPT !.infra_state = "infra_intacte"]

C15_Step ==
    /\ (pc = "select" /\ pc' = "loop") => repaired_ids' = {}
    /\ pc = "loop" => repaired_ids \subseteq repaired_ids'
    /\ IsPickStep =>
          LET i == IndexOf(sel_buildings, ordered'[Len(ordered')])
          IN  /\ repaired_ids' = repaired_ids \cup InfraIdsOf(sel_buildings[i])
              /\ OnlyBuildingRepaired(i)
    /\ (pc = "loop" /\ ~IsPickStep) => repaired_ids' = repaired_ids
    /\ (run' = run /\ ~IsPickStep) => sel_buildings' = sel_buildings
    /\ run' = run =>
          \A j \in 1..Len(sel_buildings) : \A k \in 1..Len(sel_buildings[j].list_infras) :
              SegmentState(sel_buildings, j, k) = "infra_intacte"
                => SegmentState(sel_buildings', j, k) = "infra_intacte"

C15_RunEnd ==
    pc \in {"assign", "assigned"} =>
        \A p \in 1..Len(ordered) :
            LET b == BuildingAt(sel_buildings, ordered[p])
            IN  \A k \in 1..Len(b.list_infras) :
                    /\ b.list_infras[k].infra_state = "infra_intacte"
                    /\ b.list_infras[k].infra_id \in repaired_ids

(* C15: in a run the repaired set is empty at the first iteration and never  *)
(* loses an id; a selection step adds the ids of the segments of the         *)
(* building selected, no other, and sets the state of those segments, no     *)
(* other, to repaired; no other step of the run touches the set or a         *)
(* segment; a repaired segment stays repaired; and when the run is over      *)
(* every segment of every building of the order is repaired, its id in the   *)
(* repaired set                                                              *)
C15_RepairFrame ==
    /\ [][C15_Step]_vars
    /\ [](C15_RunEnd)

(* the second run has made its first pick, a building of two segments; the   *)
(* building still waiting holds a segment of the same id, not yet repaired   *)
C15_Witness ==
    /\ run = 2
    /\ pc = "loop"
    /\ Len(ordered) = 1
    /\ Len(remaining) = 1
    /\ LET picked == BuildingAt(sel_buildings, ordered[1])
           waiting == BuildingAt(sel_buildings, remaining[1])
       IN  /\ Len(picked.list_infras) = 2
           /\ \A k \in 1..2 : picked.list_infras[k].infra_state = "infra_intacte"
           /\ repaired_ids = InfraIdsOf(picked)
           /\ \E k \in 1..Len(waiting.list_infras) :
                 /\ waiting.list_infras[k].infra_id \in repaired_ids
                 /\ waiting.list_infras[k].infra_state = "a_remplacer"

-----------------------------------------------------------------------------
(* C16  In the pipeline the greedy order is one stable sort.                *)

(* the buildings handed to the scheduler, as they were built *)
ScheduledAsBuilt == Fresh(sel_buildings)

(* comparison of two keys (prio, difficulty), as Python compares tuples *)
KeyBefore(a, b) == a[1] < b[1] \/ (a[1] = b[1] /\ a[2] < b[2])

(* the place of the building at position i of the list in sorted(list,      *)
(* key=priority_key): after the buildings of a smaller key and after those  *)
(* of the same key that stand before it                                     *)
StableRank(blds, i) ==
    1 + Cardinality({j \in 1..Len(blds) :
                       \/ KeyBefore(priority_key(blds[j]), priority_key(blds[i]))
                       \/ (priority_key(blds[j]) = priority_key(blds[i]) /\ j < i)})

NoSharedSegment(blds) ==
    \A i, j \in 1..Len(blds) : i # j => InfraIdsOf(blds[i]) \cap InfraIdsOf(blds[j]) = {}

-----------------------------------------------------------------------------
(* C17  A shared segment is counted once.                                   *)

AllSegmentIds == UNION {InfraIdsOf(sel_buildings[i]) : i \in 1..Len(sel_buildings)}

(* the difficulty of the segment of id s, as built; the buildings that hold *)
(* it hold it with the same attributes                                      *)
DifficultyOfSegmentId(s) ==
    LET h == CHOOSE h \in Holders(sel_buildings, s) : TRUE
    IN  StaticDifficulty(sel_buildings[h[1]].list_infras[h[2]])

RECURSIVE SumOver(_, _)
SumOver(S, f) ==
    IF S = {} THEN 0
    ELSE LET x == CHOOSE x \in S : TRUE IN f[x] + SumOver(S \ {x}, f)

(* the position in the order of the first building selected among those *)
(* that hold the segment of id s                                         *)
FirstSelectedHolder(s) ==
    CHOOSE p \in 1..Len(ordered) :
        /\ s \in InfraIdsOf(BuildingAt(sel_buildings, ordered[p]))
        /\ \A q \in 1..(p - 1) : s \notin InfraIdsOf(BuildingAt(sel_buildings, ordered[q]))

(* C17: when the function has returned, the selection-time difficulty of a   *)
(* building is the sum of the difficulties of the segments it is the first   *)
(* selected to hold, so that a segment held by several buildings is counted  *)
(* for one of them only, and the selection-time difficulties add up to the   *)
(* sum of the difficulties of the distinct segment ids                       *)
C17_SharedCountedOnce ==
    pc = "assign" =>
        /\ \A p \in 1..Len(ordered) :
              pick_cost[ordered[p]]
                = SumOver({s \in AllSegmentIds : FirstSelectedHolder(s) = p},
                          [s \in AllSegmentIds |-> DifficultyOfSegmentId(s)])
        /\ SumOver(Range(ordered), pick_cost)
              = SumOver(AllSegmentIds, [s \in AllSegmentIds |-> DifficultyOfSegmentId(s)])

(* three buildings: the second selected holds a segment of the first and one *)
(* of its own, the third only segments already counted                       *)
C17_Witness ==
    /\ pc = "assign"
    /\ Len(ordered) = 3
    /\ pick_cost[ordered[1]] > 0
    /\ pick_cost[ordered[2]] > 0
    /\ pick_cost[ordered[2]] < InitialDifficulty(ordered[2])
    /\ pick_cost[ordered[3]] = 0
    /\ InitialDifficulty(ordered[3]) > 0

-----------------------------------------------------------------------------
(* C18  A total difficulty of 0 sends every non-hospital to phase 4.        *)

(* the segment of the catalogue whose technical type, "cuivre", is in *)
(* neither rate table                                                 *)
UnrecognizedSegment == CatalogInfra(1, 6)

(* C18: the first non-hospital building of the order is in phase 1 exactly  *)
(* when the selection-time difficulties of the non-hospital buildings add   *)
(* up to more than 0; when they add up to 0, as they do when every segment  *)
(* is of an unrecognized type and so of difficulty 0, every non-hospital    *)
(* building is in phase 4 and no row has phase 1, 2 or 3                    *)
C18_ZeroTotal ==
    /\ get_infra_difficulty(UnrecognizedSegment) = 0
    /\ pc = "assigned" =>
          LET nh == NonHospitalOrder(ordered, buildings)
              total == SumSeq([k \in 1..Len(nh) |-> StoredDifficulty(nh[k])])
          IN  /\ nh # <<>> => (PhaseOfId(phases_df, nh[1]) = 1 <=> total > 0)
              /\ total = 0 =>
                    /\ \A k \in 1..Len(nh) : PhaseOfId(phases_df, nh[k]) = 4
                    /\ \A r \in 1..Len(phases_df) : phases_df[r][2] \notin 1..3

(* two non-hospital buildings of difficulty 0, both in phase 4 *)
C18_Witness ==
    /\ pc = "assigned"
    /\ LET nh == NonHospitalOrder(ordered, buildings)
       IN  /\ Len(nh) = 2
           /\ nh[1] # nh[2]
           /\ nh[1] \in DOMAIN pick_cost
           /\ StoredDifficulty(nh[1]) = 0
           /\ StoredDifficulty(nh[2]) = 0
           /\ phases_df = <<<<nh[1], 4>>, <<nh[2], 4>>>>

-----------------------------------------------------------------------------
(* C19  Tie-break of the selection.                                         *)

(* the first position of the pool at which the recomputed difficulty is the *)
(* smallest of the pool                                                     *)
FirstMinimumOfPool ==
    CHOOSE k \in 1..Len(pool) :
        /\ \A j \in 1..Len(pool) :
              RecomputedDifficulty(pool[k]) <= RecomputedDifficulty(pool[j])
        /\ \A j \in 1..(k - 1) :
              RecomputedDifficulty(pool[k]) < RecomputedDifficulty(pool[j])

C19_FirstOfPool == IsPickStep => ordered'[Len(ordered')] = pool[FirstMinimumOfPool]

(* two buildings whose difficulties are equal whatever has been repaired *)
StayEqual(a, b) ==
    \A rep \in SUBSET AllSegmentIds :
        compute_building_difficulty_dynamic(a, rep) = compute_building_difficulty_dynamic(b, rep)

C19_InputOrderAmongEqual ==
    \A i, j \in 1..Len(sel_buildings) :
        ( /\ i < j
          /\ TierRank(sel_buildings[i].type_batiment) = TierRank(sel_buildings[j].type_batiment)
          /\ StayEqual(ScheduledAsBuilt[i], ScheduledAsBuilt[j])
          /\ sel_buildings[j].id_building \in Range(ordered) )
        => \E p, q \in 1..Len(ordered) :
              /\ p < q
              /\ ordered[p] = sel_buildings[i].id_building
              /\ ordered[q] = sel_buildings[j].id_building

(* C19: of the buildings of the pool that share the smallest recomputed     *)
(* difficulty, a selection step takes the one standing first in the pool as *)
(* it is at that step, whatever the ids; and of two buildings of a tier     *)
(* whose difficulties stay equal, the one given first in the input list is  *)
(* selected first, also when its id is the larger                           *)
C19_TieBreak ==
    /\ [][C19_FirstOfPool]_vars
    /\ [](C19_InputOrderAmongEqual)

(* the second pick was a tie between two buildings whose difficulties were   *)
(* different at first: the one taken stood first in the pool, sorted by the  *)
(* first round, though it is given later in the input list and its id is not *)
(* the smaller of the two                                                    *)
C19_Witness ==
    /\ pc = "loop"
    /\ Len(ordered) = 2
    /\ Len(pool) = 1
    /\ LET first == BuildingAt(ScheduledAsBuilt, ordered[1])
           taken == BuildingAt(ScheduledAsBuilt, ordered[2])
           left == BuildingAt(ScheduledAsBuilt, pool[1])
       IN  /\ compute_building_difficulty_dynamic(taken, {})
                # compute_building_difficulty_dynamic(left, {})
           /\ pick_cost[ordered[2]] > 0
           /\ compute_building_difficulty_dynamic(left, InfraIdsOf(first)) = pick_cost[ordered[2]]
           /\ IndexOf(sel_buildings, pool[1]) < IndexOf(sel_buildings, ordered[2])
           /\ pool[1] < ordered[2]

====
